---- MODULE Spec2Model ----
(***************************************************************************)
(* Model of src/main.rs: a Generator holding a list of MusicElement, and   *)
(* render(), which sizes a sample buffer (create_wave), adds every         *)
(* element's oscillator output into it (render_elements) and streams it to *)
(* a WAV writer.                                                           *)
(*                                                                         *)
(* All arithmetic of the program is f32.  An f32 value is modelled as a    *)
(* record [m, e] standing for m * 2^e, with m odd (or m = 0, e = 0), and   *)
(* every operation rounds its exact result to 24 significant bits, ties to *)
(* even, as IEEE 754 single precision does.  Infinities, NaN, subnormals   *)
(* and the sign of zero are outside the model: the inputs stay far from    *)
(* the exponent limits.                                                    *)
(*                                                                         *)
(* Three specifications share the actions:                                 *)
(*   Spec          the generator with inputs whose arithmetic is exact     *)
(*                 (whole and quarter seconds, negative values included);  *)
(*   SpecRounding  the generator with inputs whose arithmetic rounds       *)
(*                 (thirds of a second at 3 Hz, a very low note);          *)
(*   FnSpec        the oscillator functions alone, on times and            *)
(*                 frequencies that include phases beyond 2^23.            *)
(***************************************************************************)
EXTENDS Integers, Sequences, FiniteSets

\* ------------------------------------------------------------------ f32

\* Significand width of f32 (the type of every number in main.rs).
MantissaBits == 24

Pow2(k) == 2 ^ k

Abs(n) == IF n < 0 THEN -n ELSE n

Sign(n) == IF n < 0 THEN -1 ELSE 1

\* Number of bits of a natural number (0 for 0).
RECURSIVE BitLen(_)
BitLen(n) ==
    IF n = 0 THEN 0
    ELSE IF n >= 256 THEN 8 + BitLen(n \div 256)
    ELSE 1 + BitLen(n \div 2)

\* The canonical record of m * 2^e: trailing zero bits moved to the exponent.
RECURSIVE Norm(_, _)
Norm(m, e) ==
    IF m = 0 THEN [m |-> 0, e |-> 0]
    ELSE IF m % 2 = 0 THEN Norm(m \div 2, e + 1)
    ELSE [m |-> m, e |-> e]

\* m * 2^e rounded to the nearest f32, ties to even.
RoundF(m, e) ==
    LET len == BitLen(Abs(m)) IN
    IF len <= MantissaBits THEN Norm(m, e)
    ELSE LET s    == len - MantissaBits
             q    == Pow2(s)
             r    == Abs(m) % q
             base == Abs(m) \div q
             up   == (2 * r > q) \/ (2 * r = q /\ base % 2 = 1)
         IN  Norm(Sign(m) * (IF up THEN base + 1 ELSE base), e + s)

\* An integer as an f32 (`as f32`, and the literals 0.0, 1.0, 2.0, 440.0).
F(n) == RoundF(n, 0)

\* n / 2^k, for the inputs that are not integers.
Dyadic(n, k) == RoundF(n, -k)

FNeg(a) == [m |-> -a.m, e |-> a.e]

FAbs(a) == [m |-> Abs(a.m), e |-> a.e]

\* Position of the bit above the leading bit of |a|.
Top(a) == a.e + BitLen(Abs(a.m))

\* Addition.  The larger operand is placed on MantissaBits + 4 bits; the part
\* of the smaller one that falls below that frame is kept as a sticky bit
\* under the sum, so that RoundF rounds the exact sum.
FAdd(a, b) ==
    IF a.m = 0 THEN b
    ELSE IF b.m = 0 THEN a
    ELSE LET big    == IF Top(a) >= Top(b) THEN a ELSE b
             small  == IF Top(a) >= Top(b) THEN b ELSE a
             u      == Top(big) - (MantissaBits + 4)
             M      == Abs(big.m) * Pow2(big.e - u)
             d      == u - small.e
             q      == IF d <= 0 THEN Abs(small.m) * Pow2(-d)
                       ELSE IF d > 30 THEN 0
                       ELSE Abs(small.m) \div Pow2(d)
             sticky == IF d <= 0 THEN 0
                       ELSE IF d > 30 THEN 1
                       ELSE IF Abs(small.m) % Pow2(d) # 0 THEN 1 ELSE 0
             mag    == IF Sign(a.m) = Sign(b.m)
                       THEN 2 * (M + q) + sticky
                       ELSE 2 * (M - q - sticky) + sticky
         IN  RoundF(Sign(big.m) * mag, u - 1)

FSub(a, b) == FAdd(a, FNeg(b))

\* Multiplication.  The 48-bit product of the significands is formed from
\* 12-bit halves as high * 2^24 + low and cut to 28 bits plus a sticky bit.
FMul(a, b) ==
    LET h   == Pow2(12)
        w   == Pow2(24)
        a1  == Abs(a.m) \div h
        a0  == Abs(a.m) % h
        b1  == Abs(b.m) \div h
        b0  == Abs(b.m) % h
        mid == a1 * b0 + a0 * b1
        lo  == a0 * b0 + (mid % h) * h
        low == lo % w
        high == a1 * b1 + (mid \div h) + (lo \div w)
        n   == BitLen(high)
        sgn == Sign(a.m) * Sign(b.m)
    IN  IF n < 4 THEN RoundF(sgn * (high * w + low), a.e + b.e)
        ELSE LET cut    == Pow2(n - 4)
                 R      == high * Pow2(28 - n) + (low \div cut)
                 sticky == IF low % cut # 0 THEN 1 ELSE 0
             IN  RoundF(sgn * (2 * R + sticky), a.e + b.e + (n - 4) - 1)

\* Long division: quotient bits are produced until the quotient has
\* MantissaBits + 2 bits or the remainder is 0; a non-zero remainder is kept
\* as a sticky bit below the quotient, so that RoundF rounds the exact value.
RECURSIVE DivSteps(_, _, _, _)
DivSteps(q, r, d, k) ==
    IF r = 0 \/ q >= Pow2(MantissaBits + 1) THEN <<q, r, k>>
    ELSE DivSteps(2 * q + ((2 * r) \div d), (2 * r) % d, d, k + 1)

FDiv(a, b) ==
    LET qr == DivSteps(Abs(a.m) \div Abs(b.m), Abs(a.m) % Abs(b.m), Abs(b.m), 0)
        sticky == IF qr[2] = 0 THEN 0 ELSE 1
    IN  RoundF(Sign(a.m) * Sign(b.m) * (2 * qr[1] + sticky), a.e - b.e - qr[3] - 1)

\* a > b: the sign of the difference, which rounding never changes.
FGt(a, b) == FSub(a, b).m > 0

FGe(a, b) == ~FGt(b, a)

\* f32::floor
FFloor(a) ==
    IF a.e >= 0 THEN a
    ELSE IF -a.e > 30 THEN (IF a.m < 0 THEN F(-1) ELSE F(0))
    ELSE Norm(a.m \div Pow2(-a.e), 0)

\* `as usize`: truncation toward zero, negative values saturate to 0.
AsUsize(a) ==
    IF a.m <= 0 THEN 0
    ELSE IF a.e >= 0 THEN a.m * Pow2(a.e)
    ELSE IF -a.e > 30 THEN 0
    ELSE a.m \div Pow2(-a.e)

\* ------------------------------------------------------------ oscillators

WaveFunction == {"Square", "Sawtooth", "Triangle"}

\* A faulty square: the floor of the doubled phase taken as twice the floor of
\* the phase.  C6 tells it from square.
square_floor_doubled(t, f) ==
    FAdd(FMul(F(2), FSub(FMul(F(2), FFloor(FMul(t, f))),
                         FMul(F(2), FFloor(FMul(t, f))))),
         F(1))

square(t, f) ==
    FAdd(FMul(F(2), FSub(FMul(F(2), FFloor(FMul(t, f))),
                         FFloor(FMul(FMul(F(2), t), f)))),
         F(1))

sawtooth(t, f) ==
    FMul(F(2), FSub(FMul(t, f), FFloor(FAdd(FDiv(F(1), F(2)), FMul(t, f)))))

triangle(t, f) ==
    FSub(FMul(F(2),
              FAbs(FMul(F(2),
                        FSub(FMul(t, f),
                             FFloor(FAdd(FDiv(F(1), F(2)), FMul(t, f))))))),
         F(1))

apply_wave_function(function, t, f) ==
    CASE function = "Square"   -> square(t, f)
      [] function = "Sawtooth" -> sawtooth(t, f)
      [] function = "Triangle" -> triangle(t, f)

\* 2.0f32.powf(y) for a whole number y (every note of the model is a whole
\* number of octaves, so that note / 12.0 is whole).
Powf2(y) == [m |-> 1, e |-> y.m * Pow2(y.e)]

get_frequency_from_note(note) == FMul(F(440), Powf2(FDiv(note, F(12))))

\* -------------------------------------------------------------- generator

MusicElement(function, time, duration, note) ==
    [function |-> function, time |-> time, duration |-> duration, note |-> note]

\* The fold of create_wave's loop: the largest end time, starting from 0.
RECURSIVE max_end_time(_, _, _)
max_end_time(elems, i, global_time) ==
    IF i > Len(elems) THEN global_time
    ELSE LET end_time == FAdd(elems[i].time, elems[i].duration)
         IN  max_end_time(elems, i + 1,
                          IF FGt(end_time, global_time) THEN end_time
                          ELSE global_time)

\* A faulty sizing: the trailing silence left out.  C2 tells it from
\* samples_count.
samples_count_without_silence(elems, sample_rate, silence_time) ==
    AsUsize(FMul(max_end_time(elems, 1, F(0)), F(sample_rate)))

samples_count(elems, sample_rate, silence_time) ==
    AsUsize(FMul(FAdd(max_end_time(elems, 1, F(0)), silence_time), F(sample_rate)))

create_wave(elems, sample_rate, silence_time) ==
    [i \in 1 .. samples_count(elems, sample_rate, silence_time) |-> F(0)]

first_sample(element, sample_rate) == AsUsize(FMul(sample_rate, element.time))

last_sample(element, sample_rate) ==
    first_sample(element, sample_rate)
        + AsUsize(FMul(sample_rate, element.duration))

\* A faulty mixing: the sample overwritten instead of added to.  C3 and C4
\* tell it from mix.
mix_overwriting(old, level) == level

\* What one pass of the inner loop adds to wave[sample].
mix(old, level) == FAdd(old, level)

\* The inner loop of render_elements, from index `sample` on.  wave[sample] of
\* the code is wave[sample + 1] here; an index past the end of the Vec panics.
RECURSIVE render_samples(_, _, _, _, _, _, _)
render_samples(wave, function, frequency, sample_rate, sample, last, sample_time) ==
    IF sample >= last THEN [wave |-> wave, fault |-> FALSE]
    ELSE IF sample >= Len(wave) THEN [wave |-> wave, fault |-> TRUE]
    ELSE LET t     == FDiv(sample_time, sample_rate)
             level == apply_wave_function(function, t, frequency)
         IN  render_samples([wave EXCEPT ![sample + 1] = mix(@, level)],
                            function, frequency, sample_rate, sample + 1, last,
                            FAdd(sample_time, F(1)))

\* A faulty pass: the elapsed time counted from the start of the buffer
\* instead of the element's first sample.  C9 tells it from render_element.
render_element_from_buffer_start(wave, element, sample_rate) ==
    render_samples(wave, element.function,
                   get_frequency_from_note(element.note), sample_rate,
                   first_sample(element, sample_rate),
                   last_sample(element, sample_rate),
                   F(first_sample(element, sample_rate)))

\* One pass of the outer loop of render_elements.
render_element(wave, element, sample_rate) ==
    render_samples(wave, element.function,
                   get_frequency_from_note(element.note), sample_rate,
                   first_sample(element, sample_rate),
                   last_sample(element, sample_rate), F(0))

\* render_elements from element i on.
RECURSIVE render_elements(_, _, _, _)
render_elements(elems, i, sample_rate, wave) ==
    IF i > Len(elems) THEN [wave |-> wave, fault |-> FALSE]
    ELSE LET r == render_element(wave, elems[i], sample_rate)
         IN  IF r.fault THEN r
             ELSE render_elements(elems, i + 1, sample_rate, r.wave)

\* The buffer render() builds before it opens the writer.
rendered_wave(elems, sample_rate, silence_time) ==
    render_elements(elems, 1, F(sample_rate),
                    create_wave(elems, sample_rate, silence_time))

\* ------------------------------------------------------------------ state

VARIABLES
    elements,       \* Generator.elements, in push_back order
    pc,             \* where render() is: "idle" before any call, then
                    \* "render_elements", "create_writer", "write_sample",
                    \* "done" (render returned) or "panic"
    sample_rate,    \* arguments of the render() in progress
    silence_time,
    wave,           \* the local `wave` of render()
    next_element,   \* position of render_elements' iterator (1-based)
    created,        \* render() has created the output file (the writer exists)
    written,        \* the samples render() has handed to the writer
    fault,          \* which panic ended render(), "none" otherwise
    last,           \* <<[sample_rate, silence_time, wave]>> of the latest
                    \* completed render() of the present elements, else <<>>
    probe           \* <<[function, t, f, level]>>: one oscillator evaluation

vars == <<elements, pc, sample_rate, silence_time, wave, next_element, created,
          written, fault, last, probe>>

Init ==
    /\ elements = <<>>
    /\ pc = "idle"
    /\ sample_rate = 0
    /\ silence_time = F(0)
    /\ wave = <<>>
    /\ next_element = 1
    /\ created = FALSE
    /\ written = <<>>
    /\ fault = "none"
    /\ last = <<>>
    /\ probe = <<>>

\* Generator::add_music_element.  The locals of a render() that has returned
\* are gone by now.
AddMusicElement(function, time, duration, note) ==
    /\ pc \in {"idle", "done"}
    /\ elements' = Append(elements, MusicElement(function, time, duration, note))
    /\ pc' = "idle"
    /\ sample_rate' = 0
    /\ silence_time' = F(0)
    /\ wave' = <<>>
    /\ next_element' = 1
    /\ created' = FALSE
    /\ written' = <<>>
    /\ last' = <<>>
    /\ UNCHANGED <<fault, probe>>

\* A faulty render: a buffer of the right length left by an earlier call is
\* used again instead of a fresh one.  C5 tells it from Render.
RenderReusingBuffer(rate, silence) ==
    /\ pc \in {"idle", "done"}
    /\ sample_rate' = rate
    /\ silence_time' = silence
    /\ wave' = IF Len(wave) = samples_count(elements, rate, silence) THEN wave
               ELSE create_wave(elements, rate, silence)
    /\ next_element' = 1
    /\ pc' = IF Len(elements) = 0 THEN "create_writer" ELSE "render_elements"
    /\ created' = FALSE
    /\ written' = <<>>
    /\ UNCHANGED <<elements, fault, last, probe>>

\* Generator::render, up to the return of create_wave.
Render(rate, silence) ==
    /\ pc \in {"idle", "done"}
    /\ sample_rate' = rate
    /\ silence_time' = silence
    /\ wave' = create_wave(elements, rate, silence)
    /\ next_element' = 1
    /\ pc' = IF Len(elements) = 0 THEN "create_writer" ELSE "render_elements"
    /\ created' = FALSE
    /\ written' = <<>>
    /\ UNCHANGED <<elements, fault, last, probe>>

\* One pass of the loop over self.elements in render_elements.
RenderElement ==
    /\ pc = "render_elements"
    /\ LET r == render_element(wave, elements[next_element], F(sample_rate))
       IN  /\ wave' = r.wave
           /\ IF r.fault
              THEN /\ pc' = "panic"
                   /\ fault' = "index_out_of_bounds"
                   /\ next_element' = next_element
              ELSE /\ pc' = IF next_element = Len(elements)
                            THEN "create_writer" ELSE "render_elements"
                   /\ fault' = fault
                   /\ next_element' = next_element + 1
    /\ UNCHANGED <<elements, sample_rate, silence_time, created, written, last,
                   probe>>

\* hound::WavWriter::create(...).unwrap(), the file created.
CreateWriterOk ==
    /\ pc = "create_writer"
    /\ created' = TRUE
    /\ pc' = "write_sample"
    /\ UNCHANGED <<elements, sample_rate, silence_time, wave, next_element,
                   written, fault, last, probe>>

\* hound::WavWriter::create(...).unwrap() on Err: no file is created.
CreateWriterErr ==
    /\ pc = "create_writer"
    /\ pc' = "panic"
    /\ fault' = "create"
    /\ UNCHANGED <<elements, sample_rate, silence_time, wave, next_element,
                   created, written, last, probe>>

\* writer.write_sample(sample).unwrap(), the sample written.
WriteSampleOk ==
    /\ pc = "write_sample"
    /\ Len(written) < Len(wave)
    /\ written' = Append(written, wave[Len(written) + 1])
    /\ UNCHANGED <<elements, pc, sample_rate, silence_time, wave, next_element,
                   created, fault, last, probe>>

\* writer.write_sample(sample).unwrap() on Err.
WriteSampleErr ==
    /\ pc = "write_sample"
    /\ Len(written) < Len(wave)
    /\ pc' = "panic"
    /\ fault' = "write_sample"
    /\ UNCHANGED <<elements, sample_rate, silence_time, wave, next_element,
                   created, written, last, probe>>

\* The loop over wave is exhausted and render returns.
Return ==
    /\ pc = "write_sample"
    /\ Len(written) = Len(wave)
    /\ pc' = "done"
    /\ last' = <<[sample_rate |-> sample_rate, silence_time |-> silence_time,
                  wave |-> wave]>>
    /\ UNCHANGED <<elements, sample_rate, silence_time, wave, next_element,
                   created, written, fault, probe>>

\* ----------------------------------------------------------------- inputs

MaxElements == 2

Times == {F(-1), F(0), F(1)}

Durations == {F(-1), F(1)}

Notes == {F(-120)}

SampleRates == {1, 2}

Silences == {F(0), Dyadic(3, 2)}

Next ==
    \/ \E function \in WaveFunction, time \in Times, duration \in Durations,
          note \in Notes :
          /\ Len(elements) < MaxElements
          /\ AddMusicElement(function, time, duration, note)
    \/ \E rate \in SampleRates, silence \in Silences : Render(rate, silence)
    \/ RenderElement
    \/ CreateWriterOk
    \/ CreateWriterErr
    \/ WriteSampleOk
    \/ WriteSampleErr
    \/ Return

Spec == Init /\ [][Next]_vars

\* Inputs whose f32 arithmetic rounds: a third of a second at 3 Hz, and a
\* frequency so low that a sample is lost in the last bits of a sum.

MaxRoundingElements == 3

RoundingFunctions == {"Sawtooth"}

RoundingTimes == {F(0), FDiv(F(1), F(3))}

RoundingDurations == {FDiv(F(7), F(3))}

RoundingNotes == {F(-348), F(-120)}

RoundingSampleRates == {1, 3}

RoundingSilences == {F(0)}

NextRounding ==
    \/ \E function \in RoundingFunctions, time \in RoundingTimes,
          duration \in RoundingDurations, note \in RoundingNotes :
          /\ Len(elements) < MaxRoundingElements
          /\ AddMusicElement(function, time, duration, note)
    \/ \E rate \in RoundingSampleRates, silence \in RoundingSilences :
          Render(rate, silence)
    \/ RenderElement
    \/ CreateWriterOk
    \/ CreateWriterErr
    \/ WriteSampleOk
    \/ WriteSampleErr
    \/ Return

SpecRounding == Init /\ [][NextRounding]_vars

\* ------------------------------------------------- the oscillators alone

\* One call of apply_wave_function, its result recorded in probe.
ApplyWaveFunction(function, t, f) ==
    /\ probe' = <<[function |-> function, t |-> t, f |-> f,
                   level |-> apply_wave_function(function, t, f)]>>
    /\ UNCHANGED <<elements, pc, sample_rate, silence_time, wave, next_element,
                   created, written, fault, last>>

MaxProbeTicks == 8

\* Elapsed times: quarters of a second, and two times so large that the phase
\* t * f has no fraction bits left in f32.
ProbeTimes == {Dyadic(k, 2) : k \in 0 .. MaxProbeTicks} \cup {F(8388609), F(8388610)}

ProbeFrequencies ==
    {get_frequency_from_note(F(-120)), get_frequency_from_note(F(-108)),
     get_frequency_from_note(F(0)), F(1), Dyadic(3, 2)}

FnNext ==
    \E function \in WaveFunction, t \in ProbeTimes, f \in ProbeFrequencies :
        ApplyWaveFunction(function, t, f)

FnSpec == Init /\ [][FnNext]_vars

\* ----------------------------------------------------------------- claims

\* render_elements has just returned: the buffer is complete, and the steps
\* that follow only read it.
Rendered == pc = "create_writer"

\* create_wave has just returned: nothing has been added to the buffer yet.
JustAllocated ==
    \/ pc = "render_elements" /\ next_element = 1
    \/ pc = "create_writer" /\ Len(elements) = 0

NonNegative(a) == a.m >= 0

AllZero(w) == \A i \in 1 .. Len(w) : w[i] = F(0)

EndTimes(elems) ==
    {FAdd(elems[i].time, elems[i].duration) : i \in 1 .. Len(elems)}

FMax(S) == CHOOSE x \in S : \A y \in S : ~FGt(y, x)

\* The samples of the buffer that `element` adds to, as 0-based indices.
SampleRange(element, rate) ==
    first_sample(element, F(rate)) .. last_sample(element, F(rate)) - 1

\* C1: render never indexes the buffer outside [0, buffer.length): no run ends
\* in an index-out-of-bounds panic, whatever the events and the arguments.
C1_NeverOutOfBounds == fault # "index_out_of_bounds"

\* C2, as stated: for trailing_silence >= 0 the buffer create_wave returns is
\* all zeros and has floor((trailing_silence + max end time) * sample_rate)
\* samples, the max being 0 only when the timeline is empty.
C2_LengthFromMaxEnd ==
    (JustAllocated /\ NonNegative(silence_time)) =>
        /\ AllZero(wave)
        /\ Len(wave) =
             AsUsize(FMul(FAdd(IF elements = <<>> THEN F(0)
                               ELSE FMax(EndTimes(elements)),
                               silence_time),
                          F(sample_rate)))

\* C2, amended: the same, with the max taken over the end times and 0 (an
\* event that ends before time 0 does not shorten the buffer).
C2_LengthFromClampedMaxEnd ==
    (JustAllocated /\ NonNegative(silence_time)) =>
        /\ AllZero(wave)
        /\ Len(wave) =
             AsUsize(FMul(FAdd(FMax(EndTimes(elements) \cup {F(0)}),
                               silence_time),
                          F(sample_rate)))

C2_Witness ==
    /\ JustAllocated
    /\ elements # <<>>
    /\ \A i \in 1 .. Len(elements) :
          ~NonNegative(FAdd(elements[i].time, elements[i].duration))
    /\ silence_time.m > 0
    /\ Len(wave) > 0

\* C3: two events with the same start time and duration render to the
\* sample-wise sum of the buffers each of them renders to alone.
C3_AdditiveMixing ==
    (/\ Rendered
     /\ Len(elements) = 2
     /\ elements[1].time = elements[2].time
     /\ elements[1].duration = elements[2].duration) =>
        LET a == rendered_wave(<<elements[1]>>, sample_rate, silence_time)
            b == rendered_wave(<<elements[2]>>, sample_rate, silence_time)
        IN  /\ ~a.fault
            /\ ~b.fault
            /\ Len(a.wave) = Len(wave)
            /\ Len(b.wave) = Len(wave)
            /\ \A i \in 1 .. Len(wave) : wave[i] = FAdd(a.wave[i], b.wave[i])

C3_Witness ==
    /\ Rendered
    /\ Len(elements) = 2
    /\ elements[1].time = elements[2].time
    /\ elements[1].duration = elements[2].duration
    /\ elements[1].function # elements[2].function
    /\ \E i \in SampleRange(elements[1], sample_rate) :
          /\ rendered_wave(<<elements[1]>>, sample_rate, silence_time).wave[i + 1]
                # F(0)
          /\ wave[i + 1]
                # rendered_wave(<<elements[1]>>, sample_rate, silence_time).wave[i + 1]

Orderings(n) ==
    {p \in [1 .. n -> 1 .. n] : \A i, j \in 1 .. n : p[i] = p[j] => i = j}

Reorder(elems, p) == [i \in 1 .. Len(elems) |-> elems[p[i]]]

\* C4, as stated: every reordering of the events renders to the same buffer.
C4_OrderIndependent ==
    Rendered =>
        \A p \in Orderings(Len(elements)) :
            rendered_wave(Reorder(elements, p), sample_rate, silence_time)
                = [wave |-> wave, fault |-> FALSE]

\* C4, amended: every reordering renders to a buffer of the same length and
\* faults exactly when this order does; with at most two events the samples
\* are the same too.
C4_OrderIndependentUpToTwo ==
    /\ Rendered =>
          \A p \in Orderings(Len(elements)) :
              LET r == rendered_wave(Reorder(elements, p), sample_rate,
                                     silence_time)
              IN  /\ ~r.fault
                  /\ Len(r.wave) = Len(wave)
                  /\ Len(elements) <= 2 => r.wave = wave
    /\ fault = "index_out_of_bounds" =>
          \A p \in Orderings(Len(elements)) :
              rendered_wave(Reorder(elements, p), sample_rate, silence_time).fault

C4_Witness ==
    /\ Rendered
    /\ Len(elements) = 2
    /\ elements[1].note # elements[2].note
    /\ elements[1].time # elements[2].time
    /\ \E i \in SampleRange(elements[1], sample_rate)
                  \cap SampleRange(elements[2], sample_rate) :
          /\ wave[i + 1] # F(0)
          /\ wave[i + 1]
                # rendered_wave(<<elements[1]>>, sample_rate, silence_time).wave[i + 1]

\* C5: no step of render changes the timeline, and a render of the timeline
\* a completed render left behind, with the same arguments, builds the same
\* buffer again.
C5_RenderReadsOnly ==
    [][/\ pc' # "idle" => elements' = elements
       /\ (/\ pc' = "create_writer"
           /\ last' # <<>>
           /\ last'[1].sample_rate = sample_rate'
           /\ last'[1].silence_time = silence_time') => wave' = last'[1].wave]_vars

C5_Witness ==
    /\ pc = "create_writer"
    /\ elements # <<>>
    /\ last # <<>>
    /\ last[1].sample_rate = sample_rate
    /\ last[1].silence_time = silence_time
    /\ \E i \in 1 .. Len(wave) : wave[i] # F(0)

Half == FDiv(F(1), F(2))

\* C6: square(t, f) is exactly +1 when the fractional part of the phase t * f
\* is below 1/2 and exactly -1 otherwise.
C6_SquareIsSign ==
    \A i \in 1 .. Len(probe) :
        probe[i].function = "Square" =>
            LET x    == FMul(probe[i].t, probe[i].f)
                frac == FSub(x, FFloor(x))
            IN  probe[i].level = IF FGt(Half, frac) THEN F(1) ELSE F(-1)

C6_Witness ==
    /\ probe # <<>>
    /\ probe[1].function = "Square"
    /\ probe[1].level = F(-1)
    /\ FGt(probe[1].t, F(1))

InUnitRange(a) == FGe(a, F(-1)) /\ FGe(F(1), a)

\* C7: sawtooth(t, f) and triangle(t, f) lie in [-1, 1].
C7_SawtoothTriangleInRange ==
    \A i \in 1 .. Len(probe) :
        probe[i].function \in {"Sawtooth", "Triangle"} => InUnitRange(probe[i].level)

\* C8: render either hands every sample to the writer, or fails before the
\* output file has been created.
C8_NoPartialSuccess ==
    /\ pc = "panic" => ~created
    /\ pc = "done" => written = wave

\* C9: when the sample ranges of two events do not overlap, every sample in
\* the range of one of them is that event's oscillator at the time elapsed
\* since the event's own first sample, which is also what the event renders
\* to alone; the samples in neither range are 0.
C9_DisjointEventsRenderAlone ==
    (/\ Rendered
     /\ Len(elements) = 2
     /\ SampleRange(elements[1], sample_rate)
           \cap SampleRange(elements[2], sample_rate) = {}) =>
        /\ \A k \in 1 .. 2 : \A s \in SampleRange(elements[k], sample_rate) :
              LET alone == rendered_wave(<<elements[k]>>, sample_rate, silence_time)
                  local_time ==
                      FDiv(F(s - first_sample(elements[k], F(sample_rate))),
                           F(sample_rate))
              IN  /\ wave[s + 1] =
                        apply_wave_function(elements[k].function, local_time,
                            get_frequency_from_note(elements[k].note))
                  /\ ~alone.fault => wave[s + 1] = alone.wave[s + 1]
        /\ \A s \in 0 .. Len(wave) - 1 :
              (/\ s \notin SampleRange(elements[1], sample_rate)
               /\ s \notin SampleRange(elements[2], sample_rate)) =>
                  wave[s + 1] = F(0)

C9_Witness ==
    /\ Rendered
    /\ Len(elements) = 2
    /\ SampleRange(elements[1], sample_rate) # {}
    /\ SampleRange(elements[2], sample_rate) # {}
    /\ SampleRange(elements[1], sample_rate)
          \cap SampleRange(elements[2], sample_rate) = {}
    /\ first_sample(elements[1], F(sample_rate)) > 0
    /\ ~rendered_wave(<<elements[1]>>, sample_rate, silence_time).fault
    /\ \E s \in SampleRange(elements[1], sample_rate) : wave[s + 1] = F(-1)
    /\ \E s \in 0 .. Len(wave) - 1 :
          /\ s \notin SampleRange(elements[1], sample_rate)
          /\ s \notin SampleRange(elements[2], sample_rate)

\* C10: when no start time, duration or trailing silence is negative, the
\* buffer is long enough for every event (last_sample <= buffer length), so
\* that no sample of an event falls outside it.
C10_SizingCoversEvents ==
    (/\ pc # "idle"
     /\ NonNegative(silence_time)
     /\ \A i \in 1 .. Len(elements) :
           NonNegative(elements[i].time) /\ NonNegative(elements[i].duration)) =>
        /\ \A i \in 1 .. Len(elements) :
              last_sample(elements[i], F(sample_rate)) <= Len(wave)
        /\ fault # "index_out_of_bounds"

====
